---- MODULE Spec2Model ----
(***************************************************************************)
(* UserService (src/unnamed/part_000): account creation / update / delete  *)
(* with the duplicate-credential check, socket presence bookkeeping with   *)
(* the session log and the online counts, and the resolution of an IP      *)
(* address to the civic hierarchy, over a document store (userModel,       *)
(* userSessionModel), the reference stores of the civic hierarchy, the     *)
(* external identity provider (firebaseService.auth()) and the external    *)
(* geo-IP service (httpService).                                           *)
(*                                                                         *)
(* The store is modelled as the code uses it: a collection in insertion    *)
(* order with exists / create / updateOne / findOneAndUpdate / deleteOne.  *)
(* The schema files (src/schema/user) are not part of the sources, so no   *)
(* index is assumed: the only uniqueness enforcement modelled is the one   *)
(* UserService itself performs.                                            *)
(***************************************************************************)
EXTENDS Integers, Sequences, FiniteSets, TLC

VARIABLES users, nextId, sessions, pending, calls, conns, last, geo, civic

vars == <<users, nextId, sessions, pending, calls, conns, last, geo, civic>>

(***************************************************************************)
(* Bounds of the model.                                                    *)
(***************************************************************************)
MaxUsers == 2
MaxCalls == 2
MaxConns == 2
MaxDocs == 2

(***************************************************************************)
(* Values.  NULL stands for an absent / undefined / null field; the empty  *)
(* string is a value of its own, as in the code's filters.                 *)
(***************************************************************************)
NULL == "null"
NoId == 0
FirebaseIds == {"f1", "f2"}
Phones == {"p1", "p2"}
Emails == {"e1", "e2"}
SocketIds == {"s1", "s2"}
Platforms == {"app", "web", "webmobile"}

\* JavaScript truthiness of a string-or-absent value (if (x) ..., x && ...)
Truthy(v) == v # NULL /\ v # ""

(***************************************************************************)
(* Store filters.  A filter is a tree of $and / $or over field tests; the  *)
(* driver sends an undefined operand as null, and null matches a missing   *)
(* field.                                                                  *)
(***************************************************************************)
Eq(f, v) == [op |-> "eq", field |-> f, val |-> v]
Ne(f, v) == [op |-> "ne", field |-> f, val |-> v]
And(args) == [op |-> "and", args |-> args]
Or(args) == [op |-> "or", args |-> args]

RECURSIVE Matches(_, _)
Matches(doc, q) ==
  CASE q.op = "eq" -> doc[q.field] = q.val
    [] q.op = "ne" -> doc[q.field] # q.val
    [] q.op = "and" -> \A i \in 1..Len(q.args) : Matches(doc, q.args[i])
    [] q.op = "or" -> \E i \in 1..Len(q.args) : Matches(doc, q.args[i])

RECURSIVE FirstMatchFrom(_, _, _)
FirstMatchFrom(store, q, i) ==
  IF i > Len(store) THEN 0
  ELSE IF Matches(store[i], q) THEN i
  ELSE FirstMatchFrom(store, q, i + 1)

\* Index of the first document of the collection that matches, 0 if none
FirstMatch(store, q) == FirstMatchFrom(store, q, 1)

\* Model.exists(filter): {_id} of a matching document, or null
Exists(store, q) ==
  LET i == FirstMatch(store, q)
  IN  IF i = 0 THEN [found |-> FALSE, _id |-> NoId]
      ELSE [found |-> TRUE, _id |-> store[i]._id]

(***************************************************************************)
(* checkCredentials: the filter it builds and the existence test.          *)
(***************************************************************************)
CredentialClauseNoEmptyTest(f, v) == And(<<Eq(f, v), Ne(f, NULL)>>)

\* One $and of the filter: the field equals the value and is neither '' nor null
CredentialClause(f, v) == And(<<Eq(f, v), Ne(f, ""), Ne(f, NULL)>>)

CredentialsOr(c) ==
  Or(<<CredentialClause("phone", c.phone), CredentialClause("email", c.email)>>
     \o (IF Truthy(c.voterId) THEN <<CredentialClause("voterId", c.voterId)>>
         ELSE <<>>))

CredentialsQuery(c) ==
  And((IF Truthy(c.firebaseId) THEN <<Ne("firebaseId", c.firebaseId)>> ELSE <<>>)
      \o (IF c._id # NoId THEN <<Ne("_id", c._id)>> ELSE <<>>)
      \o <<CredentialsOr(c)>>)

checkCredentials(store, c) == Exists(store, CredentialsQuery(c)).found

(***************************************************************************)
(* The identity provider.  getUser either throws or returns the provider's *)
(* record of the account; which one is an input of the call.               *)
(***************************************************************************)
ProviderFailure ==
  [ok |-> FALSE, emailVerified |-> FALSE, phoneNumber |-> NULL, email |-> NULL]

ProviderOutcomes ==
  {ProviderFailure} \cup
  [ok : {TRUE}, emailVerified : BOOLEAN, phoneNumber : Phones, email : Emails]

\* getUser(uid): an absent uid is rejected by the provider SDK
GetUser(fid, prov) == IF Truthy(fid) THEN prov ELSE ProviderFailure

\* The verification flags set on the data object inside the try block
VerifiedFlags(data, user) ==
  [emailVerified |-> Truthy(data.email) /\ user.emailVerified,
   phoneVerified |-> Truthy(data.phone) /\ user.phoneNumber = data.phone]

NoFlags == [emailVerified |-> FALSE, phoneVerified |-> FALSE]

TryGetUserUncaught(data, user) ==
  [flags |-> IF user.ok THEN VerifiedFlags(data, user) ELSE NoFlags,
   thrown |-> ~user.ok]

\* try { getUser; set flags } catch (error) { console.log(error) }
TryGetUser(data, user) ==
  [flags |-> IF user.ok THEN VerifiedFlags(data, user) ELSE NoFlags,
   thrown |-> FALSE]

(***************************************************************************)
(* create                                                                  *)
(***************************************************************************)
\* The document userModel.create(data) persists: data with activeSockets = []
NewUser(id, data) ==
  [_id |-> id, firebaseId |-> data.firebaseId, phone |-> data.phone,
   email |-> data.email, voterId |-> data.voterId, state |-> data.state,
   emailVerified |-> FALSE, phoneVerified |-> FALSE,
   activeSockets |-> <<>>, platformOnline |-> [p \in Platforms |-> 0],
   ipGeo |-> <<>>, lastIp |-> NULL]

FirebaseIdTaken(store, data) ==
  Exists(store, Eq("firebaseId", data.firebaseId)).found

\* create passes its data object to checkCredentials; it carries no _id
AsCredentials(data) ==
  [firebaseId |-> data.firebaseId, phone |-> data.phone, email |-> data.email,
   voterId |-> data.voterId, _id |-> NoId]

\* setCustomUserClaims(...) is called without await and without a handler:
\* whether it rejects (claimsOk = FALSE) is not observed by create
ClaimsThrown(claimsOk) == FALSE

\* What create returns after the provider calls: the persisted document
\* (the flags are put on the data object, after it was persisted)
CreateReturn(doc, data, user, claimsOk) ==
  LET t == TryGetUser(data, user)
  IN  [result |-> IF ClaimsThrown(claimsOk) \/ t.thrown THEN "provider_error"
                  ELSE "ok",
       ret |-> <<doc>>, flags |-> t.flags]

CreateRunCredentialsFirst(store, id, data, prov, claimsOk) ==
  IF checkCredentials(store, AsCredentials(data))
  THEN [result |-> "dupcred", users |-> store, ret |-> <<>>, flags |-> NoFlags]
  ELSE IF FirebaseIdTaken(store, data)
  THEN [result |-> "dupid", users |-> store, ret |-> <<>>, flags |-> NoFlags]
  ELSE LET doc == NewUser(id, data)
           r == CreateReturn(doc, data, GetUser(data.firebaseId, prov), claimsOk)
       IN  [result |-> r.result, users |-> Append(store, doc), ret |-> r.ret,
            flags |-> r.flags]

\* The whole handler run without interleaving
CreateRun(store, id, data, prov, claimsOk) ==
  IF FirebaseIdTaken(store, data)
  THEN [result |-> "dupid", users |-> store, ret |-> <<>>, flags |-> NoFlags]
  ELSE IF checkCredentials(store, AsCredentials(data))
  THEN [result |-> "dupcred", users |-> store, ret |-> <<>>, flags |-> NoFlags]
  ELSE LET doc == NewUser(id, data)
           r == CreateReturn(doc, data, GetUser(data.firebaseId, prov), claimsOk)
       IN  [result |-> r.result, users |-> Append(store, doc), ret |-> r.ret,
            flags |-> r.flags]

(***************************************************************************)
(* update and delete                                                       *)
(***************************************************************************)
\* The filters the callers pass: by firebaseId or by _id
QueryFilter(q) ==
  And((IF Truthy(q.firebaseId) THEN <<Eq("firebaseId", q.firebaseId)>> ELSE <<>>)
      \o (IF q._id # NoId THEN <<Eq("_id", q._id)>> ELSE <<>>))

\* $set of the keys the patch carries; a flag is only ever set to true
ApplyPatch(doc, patch, flags) ==
  [doc EXCEPT
     !.phone = IF patch.phone # NULL THEN patch.phone ELSE @,
     !.email = IF patch.email # NULL THEN patch.email ELSE @,
     !.voterId = IF patch.voterId # NULL THEN patch.voterId ELSE @,
     !.emailVerified = IF flags.emailVerified THEN TRUE ELSE @,
     !.phoneVerified = IF flags.phoneVerified THEN TRUE ELSE @]

\* findOneAndUpdate(query, data).orFail(...): the first match is updated
\* and returned as it was before the update
UpdateRun(store, q, patch, prov) ==
  LET t == TryGetUser(patch, GetUser(q.firebaseId, prov))
      i == FirstMatch(store, QueryFilter(q))
  IN  IF t.thrown
      THEN [result |-> "provider_error", users |-> store, ret |-> <<>>,
            flags |-> t.flags]
      ELSE IF i = 0
      THEN [result |-> "notfound", users |-> store, ret |-> <<>>,
            flags |-> t.flags]
      ELSE [result |-> "ok",
            users |-> [store EXCEPT ![i] = ApplyPatch(@, patch, t.flags)],
            ret |-> <<store[i]>>, flags |-> t.flags]

RemoveAt(s, i) == SubSeq(s, 1, i - 1) \o SubSeq(s, i + 1, Len(s))

\* deleteOne(query): the first match is removed
DeleteRun(store, q) ==
  LET i == FirstMatch(store, QueryFilter(q))
  IN  IF i = 0 THEN store ELSE RemoveAt(store, i)

(***************************************************************************)
(* Initial state: empty stores, no request in progress                     *)
(***************************************************************************)
NoLast == [op |-> "none"]
NoData ==
  [firebaseId |-> NULL, phone |-> NULL, email |-> NULL, voterId |-> NULL,
   state |-> NULL]
NoCall == [pc |-> "idle", data |-> NoData, id |-> NoId, result |-> "none"]
NoSocket == [user |-> NULL, socketid |-> NULL, platform |-> NULL]
NoConn == [pc |-> "idle", data |-> NoSocket, matched |-> FALSE]

\* A null document is the empty sequence, a found one a sequence of one
EmptyLocation ==
  [assemblyConstituency |-> <<>>, parliamentaryConstituency |-> <<>>,
   district |-> <<>>, state |-> <<>>]
NoResponse == [ok |-> FALSE, country |-> NULL, region |-> NULL, city |-> <<>>]
NoGeo ==
  [pc |-> "idle", ip |-> NULL, userId |-> NULL, resp |-> NoResponse,
   updated |-> FALSE, matched |-> FALSE, location |-> EmptyLocation,
   queries |-> <<>>, result |-> "none", ret |-> EmptyLocation]
NoCivic ==
  [assemblyConstituency |-> <<>>, parliamentaryConstituency |-> <<>>,
   district |-> <<>>, state |-> <<>>]

Init ==
  /\ users = <<>>
  /\ nextId = 1
  /\ sessions = <<>>
  /\ pending = <<>>
  /\ calls = [c \in 1..MaxCalls |-> NoCall]
  /\ conns = [k \in 1..MaxConns |-> NoConn]
  /\ last = NoLast
  /\ geo = NoGeo
  /\ civic = NoCivic

(***************************************************************************)
(* The handlers as single steps (one request at a time).  last records the *)
(* request just served and its outcome.                                    *)
(***************************************************************************)
Create(data, prov, claimsOk) ==
  /\ LET r == CreateRun(users, nextId, data, prov, claimsOk)
     IN  /\ Len(r.users) > Len(users) => nextId <= MaxUsers
         /\ users' = r.users
         /\ nextId' = IF Len(r.users) > Len(users) THEN nextId + 1 ELSE nextId
         /\ last' = [op |-> "create", data |-> data, prov |-> prov,
                     claimsOk |-> claimsOk, result |-> r.result, ret |-> r.ret, flags |-> r.flags]
  /\ UNCHANGED <<sessions, pending, calls, conns, geo, civic>>

Update(q, patch, prov) ==
  /\ LET r == UpdateRun(users, q, patch, prov)
     IN  /\ users' = r.users
         /\ last' = [op |-> "update", query |-> q, data |-> patch, prov |-> prov,
                     result |-> r.result, ret |-> r.ret, flags |-> r.flags]
  /\ UNCHANGED <<nextId, sessions, pending, calls, conns, geo, civic>>

DeleteCascade(q) ==
  /\ users' = DeleteRun(users, q)
  /\ last' = [op |-> "delete", query |-> q]
  /\ sessions' = SelectSeq(sessions, LAMBDA r : r.user # q.firebaseId)
  /\ UNCHANGED <<nextId, pending, calls, conns, geo, civic>>

\* deleteOne on userModel only: userSessionModel is not touched
Delete(q) ==
  /\ users' = DeleteRun(users, q)
  /\ last' = [op |-> "delete", query |-> q]
  /\ UNCHANGED <<nextId, sessions, pending, calls, conns, geo, civic>>

(***************************************************************************)
(* Account operations served one at a time, over two identities            *)
(***************************************************************************)
CreateInputs ==
  [firebaseId : FirebaseIds, phone : {NULL, "", "p1"}, email : {NULL, "e1"},
   voterId : {NULL, "v1"}, state : {NULL}]

PatchInputs == [phone : {NULL, "p1"}, email : {NULL, "e1"}, voterId : {NULL}]

QueryInputs ==
  [firebaseId : FirebaseIds, _id : {NoId}] \cup
  [firebaseId : {NULL}, _id : 1..MaxUsers]

Next ==
  \/ \E data \in CreateInputs : Create(data, ProviderFailure, TRUE)
  \/ \E q \in QueryInputs, patch \in PatchInputs : Update(q, patch, ProviderFailure)
  \/ \E q \in QueryInputs : Delete(q)

Spec == Init /\ [][Next]_vars

(***************************************************************************)
(* One account against every answer of the identity provider               *)
(***************************************************************************)
VerifyCreateInputs ==
  [firebaseId : {"f1"}, phone : {NULL, "p1"}, email : {NULL, "e1"},
   voterId : {NULL}, state : {NULL}]

VerifyQueryInputs ==
  [firebaseId : {"f1"}, _id : {NoId}] \cup
  [firebaseId : {NULL}, _id : 1..MaxUsers]

NextVerify ==
  \/ \E data \in VerifyCreateInputs, prov \in ProviderOutcomes,
        claimsOk \in BOOLEAN : Create(data, prov, claimsOk)
  \/ \E q \in VerifyQueryInputs, patch \in PatchInputs, prov \in ProviderOutcomes :
       Update(q, patch, prov)
  \/ \E q \in VerifyQueryInputs : Delete(q)

SpecVerify == Init /\ [][NextVerify]_vars

(***************************************************************************)
(* create as the awaits split it: the firebaseId test, checkCredentials,   *)
(* the insert and the provider calls are separate store round trips, and   *)
(* other requests run between them.                                        *)
(***************************************************************************)
\* A create call arrives; calls take the slots in their order of arrival
CallCreate(c, data) ==
  /\ calls[c].pc = "idle"
  /\ \A j \in 1..(c - 1) : calls[j].pc # "idle"
  /\ calls' = [calls EXCEPT ![c] = [@ EXCEPT !.pc = "exists", !.data = data]]
  /\ UNCHANGED <<users, nextId, sessions, pending, conns, last, geo, civic>>

CreateExists(c) ==
  /\ calls[c].pc = "exists"
  /\ calls' = [calls EXCEPT ![c] =
                 IF FirebaseIdTaken(users, @.data)
                 THEN [@ EXCEPT !.pc = "done", !.result = "dupid"]
                 ELSE [@ EXCEPT !.pc = "check"]]
  /\ UNCHANGED <<users, nextId, sessions, pending, conns, last, geo, civic>>

CreateCheck(c) ==
  /\ calls[c].pc = "check"
  /\ calls' = [calls EXCEPT ![c] =
                 IF checkCredentials(users, AsCredentials(@.data))
                 THEN [@ EXCEPT !.pc = "done", !.result = "dupcred"]
                 ELSE [@ EXCEPT !.pc = "insert"]]
  /\ UNCHANGED <<users, nextId, sessions, pending, conns, last, geo, civic>>

CreateInsert(c) ==
  /\ calls[c].pc = "insert"
  /\ nextId <= MaxUsers
  /\ users' = Append(users, NewUser(nextId, calls[c].data))
  /\ nextId' = nextId + 1
  /\ calls' = [calls EXCEPT ![c] = [@ EXCEPT !.pc = "getUser", !.id = nextId]]
  /\ UNCHANGED <<sessions, pending, conns, last, geo, civic>>

CreateGetUser(c, prov, claimsOk) ==
  /\ calls[c].pc = "getUser"
  /\ LET d == calls[c].data
         r == CreateReturn(NewUser(calls[c].id, d), d,
                           GetUser(d.firebaseId, prov), claimsOk)
     IN  calls' = [calls EXCEPT ![c] = [@ EXCEPT !.pc = "done",
                                                 !.result = r.result]]
  /\ UNCHANGED <<users, nextId, sessions, pending, conns, last, geo, civic>>

ConcCreateInputs ==
  [firebaseId : FirebaseIds, phone : {NULL, "p1"}, email : {NULL, "e1"},
   voterId : {NULL}, state : {NULL}]

NextConc ==
  \E c \in 1..MaxCalls :
    \/ \E data \in ConcCreateInputs : CallCreate(c, data)
    \/ CreateExists(c)
    \/ CreateCheck(c)
    \/ CreateInsert(c)
    \/ \E prov \in ProviderOutcomes, claimsOk \in BOOLEAN :
         CreateGetUser(c, prov, claimsOk)

SpecConc == Init /\ [][NextConc]_vars

(***************************************************************************)
(* Presence: connected / disconnected                                      *)
(***************************************************************************)
PushWithoutInc(doc, socketid, platform) ==
  [doc EXCEPT
     !.activeSockets = Append(@, [socketid |-> socketid, platform |-> platform])]

PushReplacing(doc, socketid, platform) ==
  [doc EXCEPT
     !.activeSockets = <<[socketid |-> socketid, platform |-> platform]>>,
     !.platformOnline[platform] = @ + 1]

\* { $push: { activeSockets: { $each: [entry] } },
\*   $inc: { 'platformOnline.<platform>': 1 } } applied to one document
PushAndInc(doc, socketid, platform) ==
  [doc EXCEPT
     !.activeSockets = Append(@, [socketid |-> socketid, platform |-> platform]),
     !.platformOnline[platform] = @ + 1]

\* A connected call arrives; calls take the slots in their order of arrival.
\* if (!data.socketid || !data.user) return: such a call is over at once
CallConnected(k, data) ==
  /\ conns[k].pc = "idle"
  /\ \A j \in 1..(k - 1) : conns[j].pc # "idle"
  /\ conns' = IF Truthy(data.socketid) /\ Truthy(data.user)
              THEN [conns EXCEPT ![k] = [pc |-> "update", data |-> data,
                                         matched |-> FALSE]]
              ELSE conns
  /\ last' = NoLast
  /\ UNCHANGED <<users, nextId, sessions, pending, calls, geo, civic>>

\* updateOne({ firebaseId: data.user }, { $push, $inc }): one store operation
ConnectedUpdate(k) ==
  /\ conns[k].pc = "update"
  /\ LET d == conns[k].data
         i == FirstMatch(users, Eq("firebaseId", d.user))
     IN  /\ users' = IF i = 0 THEN users
                     ELSE [users EXCEPT
                             ![i] = PushAndInc(@, d.socketid, d.platform)]
         /\ conns' = [conns EXCEPT ![k] = [@ EXCEPT !.pc = "findOne",
                                                    !.matched = (i # 0)]]
  /\ last' = NoLast
  /\ UNCHANGED <<nextId, sessions, pending, calls, geo, civic>>

\* findOne({ firebaseId }) and the un-awaited userSessionModel.create(...)
ConnectedFindOne(k) ==
  /\ conns[k].pc = "findOne"
  /\ LET d == conns[k].data
         i == FirstMatch(users, Eq("firebaseId", d.user))
     IN  pending' = Append(pending,
                           [user |-> d.user, socketid |-> d.socketid,
                            platform |-> d.platform,
                            state |-> IF i = 0 THEN NULL ELSE users[i].state])
  /\ conns' = [conns EXCEPT ![k] = [@ EXCEPT !.pc = "done"]]
  /\ last' = NoLast
  /\ UNCHANGED <<users, nextId, sessions, calls, geo, civic>>

\* The store completes a UserSession insert that was fired
SessionInsert ==
  /\ pending # <<>>
  /\ sessions' = Append(sessions, Head(pending))
  /\ pending' = Tail(pending)
  /\ last' = NoLast
  /\ UNCHANGED <<users, nextId, calls, conns, geo, civic>>

HoldsSocket(doc, socketid) ==
  \E n \in 1..Len(doc.activeSockets) : doc.activeSockets[n].socketid = socketid

PullSocketAndDec(doc, socketid) ==
  [doc EXCEPT
     !.activeSockets = SelectSeq(@, LAMBDA e : e.socketid # socketid),
     !.platformOnline =
        [p \in Platforms |->
           @[p] - Cardinality({n \in 1..Len(doc.activeSockets) :
                                 /\ doc.activeSockets[n].socketid = socketid
                                 /\ doc.activeSockets[n].platform = p})]]

\* $pull: { activeSockets: { socketid } } on one document
PullSocket(doc, socketid) ==
  [doc EXCEPT !.activeSockets =
     SelectSeq(@, LAMBDA e : e.socketid # socketid)]

\* The first document that has an entry with the socket id
FirstHolder(store, socketid) ==
  IF \E i \in 1..Len(store) : HoldsSocket(store[i], socketid)
  THEN CHOOSE i \in 1..Len(store) :
         /\ HoldsSocket(store[i], socketid)
         /\ \A j \in 1..(i - 1) : ~HoldsSocket(store[j], socketid)
  ELSE 0

\* updateOne({ 'activeSockets.socketid': s }, { $pull: ... })
DisconnectedRun(store, socketid) ==
  LET i == FirstHolder(store, socketid)
  IN  IF i = 0 THEN store
      ELSE [store EXCEPT ![i] = PullSocket(@, socketid)]

Disconnected(socketid) ==
  /\ users' = DisconnectedRun(users, socketid)
  /\ last' = [op |-> "disconnected", socketid |-> socketid]
  /\ UNCHANGED <<nextId, sessions, pending, calls, conns, geo, civic>>

PresenceCreateInputs ==
  [firebaseId : FirebaseIds, phone : {NULL}, email : {NULL}, voterId : {NULL},
   state : {NULL}]

\* A socket is one client's connection, and the client has one platform
PlatformOf(socketid) == IF socketid = "s1" THEN "app" ELSE "web"

ConnectInputs ==
  {[user |-> u, socketid |-> s, platform |-> PlatformOf(s)] :
     u \in FirebaseIds, s \in SocketIds} \cup
  {[user |-> NULL, socketid |-> "s1", platform |-> "app"],
   [user |-> "f1", socketid |-> NULL, platform |-> "app"]}

NextPresence ==
  \/ \E data \in PresenceCreateInputs : Create(data, ProviderFailure, TRUE)
  \/ \E k \in 1..MaxConns :
       \/ \E data \in ConnectInputs : CallConnected(k, data)
       \/ ConnectedUpdate(k)
       \/ ConnectedFindOne(k)
  \/ SessionInsert
  \/ \E s \in SocketIds : Disconnected(s)

SpecPresence == Init /\ [][NextPresence]_vars

\* Connects only: one account registers (connects for the other identity
\* find no document), connected calls run concurrently, nothing disconnects
NextConnect ==
  \/ \E data \in PresenceCreateInputs :
       data.firebaseId = "f1" /\ Create(data, ProviderFailure, TRUE)
  \/ \E k \in 1..MaxConns :
       \/ \E data \in ConnectInputs : CallConnected(k, data)
       \/ ConnectedUpdate(k)
       \/ ConnectedFindOne(k)
  \/ SessionInsert

SpecConnect == Init /\ [][NextConnect]_vars

(***************************************************************************)
(* getOnlineCounts: the platform breakdown, an aggregation over the users. *)
(* (The second aggregation groups the UserSession records by the bucket of *)
(* their date; it reads the session store only.)                           *)
(***************************************************************************)
\* userFilter: { activeSockets: { $ne: [] } } and, when filter.state is
\* given, 'location.state': filter.state
OnlineUserFilter(filter) ==
  And(<<Ne("activeSockets", <<>>)>>
      \o (IF Truthy(filter.state) THEN <<Eq("state", filter.state)>> ELSE <<>>))

\* { $match: userFilter }
MatchStage(store, q) == SelectSeq(store, LAMBDA d : Matches(d, q))

RECURSIVE UnwindFirstOnly(_)
UnwindFirstOnly(docs) ==
  IF docs = <<>> THEN <<>>
  ELSE <<Head(docs).activeSockets[1]>> \o UnwindFirstOnly(Tail(docs))

\* { $unwind: { path: '$activeSockets' } }: one output per array entry
RECURSIVE Unwind(_)
Unwind(docs) ==
  IF docs = <<>> THEN <<>>
  ELSE Head(docs).activeSockets \o Unwind(Tail(docs))

\* { $group: { _id: '$activeSockets.platform', online: { $sum: 1 } } }
GroupByPlatform(entries) ==
  {[_id |-> p,
    online |-> Cardinality({n \in 1..Len(entries) : entries[n].platform = p})] :
     p \in {entries[n].platform : n \in 1..Len(entries)}}

ByPlatform(store, filter) ==
  GroupByPlatform(Unwind(MatchStage(store, OnlineUserFilter(filter))))

GetOnlineCounts(filter) ==
  /\ last' = [op |-> "getOnlineCounts", filter |-> filter,
              byPlatform |-> ByPlatform(users, filter)]
  /\ UNCHANGED <<users, nextId, sessions, pending, calls, conns, geo, civic>>

OnlineFilters == [state : {NULL}]

\* Two sockets of one user, and one socket id held by two users
OnlineConnectInputs ==
  {[user |-> "f1", socketid |-> "s1", platform |-> "app"],
   [user |-> "f1", socketid |-> "s2", platform |-> "web"],
   [user |-> "f2", socketid |-> "s1", platform |-> "app"],
   [user |-> "f1", socketid |-> NULL, platform |-> "app"]}

NextOnline ==
  \/ \E data \in PresenceCreateInputs : Create(data, ProviderFailure, TRUE)
  \/ \E k \in 1..MaxConns :
       \/ \E data \in OnlineConnectInputs : CallConnected(k, data)
       \/ ConnectedUpdate(k)
       \/ ConnectedFindOne(k)
  \/ SessionInsert
  \/ \E s \in SocketIds : Disconnected(s)
  \/ \E filter \in OnlineFilters : GetOnlineCounts(filter)

SpecOnline == Init /\ [][NextOnline]_vars

(***************************************************************************)
(* The session log: one account that registers, is updated and deleted     *)
(* while connected calls run and sockets disconnect.  Every store          *)
(* operation a handler awaits is answered and the handler resumed, and an  *)
(* insert that was fired is carried out.                                   *)
(***************************************************************************)
SessionQueryInputs == [firebaseId : {"f1"}, _id : {NoId}]

SessionPatchInputs == [phone : {"p1"}, email : {NULL}, voterId : {NULL}]

SessionConnectInputs ==
  {[user |-> "f1", socketid |-> "s1", platform |-> "app"],
   [user |-> NULL, socketid |-> "s1", platform |-> "app"],
   [user |-> "f1", socketid |-> "", platform |-> "app"]}

NextSession ==
  \/ \E data \in PresenceCreateInputs :
       data.firebaseId = "f1" /\ Create(data, ProviderFailure, TRUE)
  \/ \E q \in SessionQueryInputs, patch \in SessionPatchInputs :
       Update(q, patch, ProviderFailure)
  \/ \E q \in SessionQueryInputs : Delete(q)
  \/ \E k \in 1..MaxConns :
       \/ \E data \in SessionConnectInputs : CallConnected(k, data)
       \/ ConnectedUpdate(k)
       \/ ConnectedFindOne(k)
  \/ SessionInsert
  \/ Disconnected("s1")

SessionFairness ==
  /\ \A k \in 1..MaxConns :
       WF_vars(ConnectedUpdate(k)) /\ WF_vars(ConnectedFindOne(k))
  /\ WF_vars(SessionInsert)

SpecSession == Init /\ [][NextSession]_vars /\ SessionFairness

(***************************************************************************)
(* getGeoByIp: the geo-IP lookup, the write on the user record and the     *)
(* walk along AssemblyConstituency -> ParliamentaryConstituency, District  *)
(* -> State.  Names are sequences of characters.  The findOne of the four  *)
(* reference services answers the first matching document or null.         *)
(***************************************************************************)
MaxAssembly == 2

Lower(ch) == IF ch = "A" THEN "a" ELSE IF ch = "B" THEN "b" ELSE ch

LowerCase(name) == [i \in 1..Len(name) |-> Lower(name[i])]

\* name: { $regex: city, $options: 'i' }: the city occurs in the name,
\* letter case ignored
RegexMatchesIgnoreCase(name, city) ==
  \E i \in 0..(Len(name) - Len(city)) :
    SubSeq(LowerCase(name), i + 1, i + Len(city)) = LowerCase(city)

\* findOne({ name: { $regex: city, $options: 'i' } })
RECURSIVE FindOneByNameFrom(_, _, _)
FindOneByNameFrom(store, city, i) ==
  IF i > Len(store) THEN <<>>
  ELSE IF RegexMatchesIgnoreCase(store[i].name, city) THEN <<store[i]>>
  ELSE FindOneByNameFrom(store, city, i + 1)

FindOneByName(store, city) == FindOneByNameFrom(store, city, 1)

\* findOne({ _id: id })
RECURSIVE FindOneByIdFrom(_, _, _)
FindOneByIdFrom(store, id, i) ==
  IF i > Len(store) THEN <<>>
  ELSE IF store[i]._id = id THEN <<store[i]>>
  ELSE FindOneByIdFrom(store, id, i + 1)

FindOneById(store, id) == FindOneByIdFrom(store, id, 1)

\* `India, ${geo.region}, ${geo.city}`
IpGeoString(resp) == <<"India", resp.region, resp.city>>

GeoWriteServicedOnly(store, userId, resp, ip) ==
  LET i == FirstMatch(store, Eq("firebaseId", userId))
  IN  IF i = 0 \/ resp.country # "IN" THEN store
      ELSE [store EXCEPT ![i] = [@ EXCEPT !.ipGeo = IpGeoString(resp),
                                          !.lastIp = ip]]

\* updateOne({ firebaseId: userId }, { ipGeo, lastIp })
GeoWrite(store, userId, resp, ip) ==
  LET i == FirstMatch(store, Eq("firebaseId", userId))
  IN  IF i = 0 THEN store
      ELSE [store EXCEPT ![i] = [@ EXCEPT !.ipGeo = IpGeoString(resp),
                                          !.lastIp = ip]]

NotServicedNever(resp) == FALSE

\* geo.country != 'IN'
NotServiced(resp) == resp.country # "IN"

\* location.district.state: reading a property of null throws
DistrictState(location) ==
  IF location.district = <<>> THEN [thrown |-> TRUE, id |-> NoId]
  ELSE [thrown |-> FALSE, id |-> location.district[1].state]

\* A getGeoByIp call arrives; one call is served at a time
CallGetGeoByIp(ip, userId) ==
  /\ geo.pc \in {"idle", "done", "failed"}
  /\ geo' = [NoGeo EXCEPT !.pc = "get", !.ip = ip, !.userId = userId]
  /\ last' = NoLast
  /\ UNCHANGED <<users, nextId, sessions, pending, calls, conns, civic>>

\* await httpService.get(...): outside any try block, so a rejection ends
\* the call with the error
GeoHttpGet(resp) ==
  /\ geo.pc = "get"
  /\ geo' = IF resp.ok
            THEN [geo EXCEPT !.pc = "update", !.resp = resp]
            ELSE [geo EXCEPT !.pc = "failed", !.resp = resp,
                             !.result = "thrown"]
  /\ last' = NoLast
  /\ UNCHANGED <<users, nextId, sessions, pending, calls, conns, civic>>

\* if (userId) await updateOne(...); if (geo.country != 'IN') return location
GeoUpdateOne ==
  /\ geo.pc = "update"
  /\ users' = IF Truthy(geo.userId)
              THEN GeoWrite(users, geo.userId, geo.resp, geo.ip)
              ELSE users
  /\ geo' = [geo EXCEPT
               !.updated = Truthy(geo.userId),
               !.matched = /\ Truthy(geo.userId)
                           /\ FirstMatch(users, Eq("firebaseId", geo.userId)) # 0,
               !.pc = IF NotServiced(geo.resp) THEN "done" ELSE "assembly",
               !.result = IF NotServiced(geo.resp) THEN "ok" ELSE @,
               !.ret = IF NotServiced(geo.resp) THEN geo.location ELSE @]
  /\ last' = NoLast
  /\ UNCHANGED <<nextId, sessions, pending, calls, conns, civic>>

\* assemblyConstituencyService.findOne by name;
\* if (!location.assemblyConstituency) return {}
GeoAssembly ==
  /\ geo.pc = "assembly"
  /\ LET found == FindOneByName(civic.assemblyConstituency, geo.resp.city)
         q == Append(geo.queries, "assemblyConstituency")
     IN  geo' = IF found = <<>>
                THEN [geo EXCEPT !.pc = "done", !.queries = q,
                                 !.result = "ok", !.ret = EmptyLocation]
                ELSE [geo EXCEPT !.pc = "parliamentary", !.queries = q,
                                 !.location.assemblyConstituency = found]
  /\ last' = NoLast
  /\ UNCHANGED <<users, nextId, sessions, pending, calls, conns, civic>>

\* parliamentaryConstituencyService.findOne({ _id })
GeoParliamentary ==
  /\ geo.pc = "parliamentary"
  /\ geo' = [geo EXCEPT
               !.pc = "district",
               !.queries = Append(@, "parliamentaryConstituency"),
               !.location.parliamentaryConstituency =
                 FindOneById(civic.parliamentaryConstituency,
                   geo.location.assemblyConstituency[1].parliamentaryConstituency)]
  /\ last' = NoLast
  /\ UNCHANGED <<users, nextId, sessions, pending, calls, conns, civic>>

\* districtService.findOne({ _id })
GeoDistrict ==
  /\ geo.pc = "district"
  /\ geo' = [geo EXCEPT
               !.pc = "state",
               !.queries = Append(@, "district"),
               !.location.district =
                 FindOneById(civic.district,
                             geo.location.assemblyConstituency[1].district)]
  /\ last' = NoLast
  /\ UNCHANGED <<users, nextId, sessions, pending, calls, conns, civic>>

\* stateService.findOne({ _id: location.district.state }); return location
GeoState ==
  /\ geo.pc = "state"
  /\ LET s == DistrictState(geo.location)
         loc == [geo.location EXCEPT !.state = FindOneById(civic.state, s.id)]
     IN  geo' = IF s.thrown
                THEN [geo EXCEPT !.pc = "failed", !.result = "thrown"]
                ELSE [geo EXCEPT !.pc = "done", !.queries = Append(@, "state"),
                                 !.location = loc, !.result = "ok",
                                 !.ret = loc]
  /\ last' = NoLast
  /\ UNCHANGED <<users, nextId, sessions, pending, calls, conns, civic>>

Cities == {<<"a">>, <<"b", "a">>}

AssemblyNames == {<<"A">>, <<"a", "b">>, <<"b">>}

GeoResponses ==
  {NoResponse} \cup
  [ok : {TRUE}, country : {"IN", "US"}, region : {"r1"}, city : Cities]

\* The reference stores: any assembly constituencies, and each of the
\* documents they refer to present or not
AssemblyDoc(i, name) ==
  [_id |-> i, name |-> name, parliamentaryConstituency |-> 1, district |-> 1]

InitGeo ==
  /\ users = <<>>
  /\ nextId = 1
  /\ sessions = <<>>
  /\ pending = <<>>
  /\ calls = [c \in 1..MaxCalls |-> NoCall]
  /\ conns = [k \in 1..MaxConns |-> NoConn]
  /\ last = NoLast
  /\ geo = NoGeo
  /\ \E n \in 0..MaxAssembly :
       \E names \in [1..n -> AssemblyNames] :
         \E pcs \in {<<>>, <<[_id |-> 1]>>},
            ds \in {<<>>, <<[_id |-> 1, state |-> 1]>>},
            ss \in {<<>>, <<[_id |-> 1]>>} :
           civic = [assemblyConstituency |->
                      [i \in 1..n |-> AssemblyDoc(i, names[i])],
                    parliamentaryConstituency |-> pcs,
                    district |-> ds,
                    state |-> ss]

NextGeo ==
  \/ \E data \in PresenceCreateInputs :
       data.firebaseId = "f1" /\ Create(data, ProviderFailure, TRUE)
  \/ \E userId \in {NULL, "f1"} : CallGetGeoByIp("ip1", userId)
  \/ \E resp \in GeoResponses : GeoHttpGet(resp)
  \/ GeoUpdateOne
  \/ GeoAssembly
  \/ GeoParliamentary
  \/ GeoDistrict
  \/ GeoState

SpecGeo == InitGeo /\ [][NextGeo]_vars

(***************************************************************************)
(* checkCredentials on its own: any store content, any candidate           *)
(***************************************************************************)
CheckCredentials(c) ==
  /\ last' = [op |-> "checkCredentials", data |-> c,
              result |-> checkCredentials(users, c)]
  /\ UNCHANGED <<users, nextId, sessions, pending, calls, conns, geo, civic>>

CredentialValues ==
  [phone : {NULL, "", "p1"}, email : {NULL, "", "e1"}, voterId : {NULL, "v1"}]

\* A stored document with the given credentials
StoredUser(i, cred) ==
  NewUser(i, [firebaseId |-> IF i % 2 = 1 THEN "f1" ELSE "f2",
              phone |-> cred.phone, email |-> cred.email,
              voterId |-> cred.voterId, state |-> NULL])

Candidates ==
  [firebaseId : {NULL, "f1"}, _id : {NoId, 2}, phone : {NULL, "", "p1"},
   email : {NULL, "", "e1"}, voterId : {NULL, "", "v1"}]

CheckInputs ==
  [firebaseId : {NULL, "f1"}, _id : {NoId}, phone : {"", "p1"},
   email : {NULL}, voterId : {NULL}]

InitCheck ==
  /\ \E n \in 0..MaxDocs :
       \E creds \in [1..n -> CredentialValues] :
         users = [i \in 1..n |-> StoredUser(i, creds[i])]
  /\ nextId = Len(users) + 1
  /\ sessions = <<>>
  /\ pending = <<>>
  /\ calls = [c \in 1..MaxCalls |-> NoCall]
  /\ conns = [k \in 1..MaxConns |-> NoConn]
  /\ last = NoLast
  /\ geo = NoGeo
  /\ civic = NoCivic

NextCheck == \E c \in CheckInputs : CheckCredentials(c)

SpecCheck == InitCheck /\ [][NextCheck]_vars

(***************************************************************************)
(* Properties of the account operations                                    *)
(***************************************************************************)
CredentialFields == {"phone", "email", "voterId"}

SharesCredential(a, b) ==
  \E f \in CredentialFields : Truthy(a[f]) /\ a[f] = b[f]

HasFirebaseId(store, fid) ==
  \E i \in 1..Len(store) : store[i].firebaseId = fid

\* C1: in every reachable state no two distinct User records hold the same
\* non-empty phone, the same non-empty email or the same non-empty voterId.
C1_CredentialsUnique ==
  \A i, j \in 1..Len(users) : i # j => ~SharesCredential(users[i], users[j])

\* C5: a create call served without interleaving is rejected with the
\* duplicate-identity error when a User with its firebaseId exists (also when
\* the credentials collide as well), otherwise with the duplicate-credential
\* error when checkCredentials matches; a rejected create adds no User and
\* leaves every User record as it was.
C5_CreateRejections ==
  [][last'.op = "create" =>
       LET d == last'.data
           idTaken == HasFirebaseId(users, d.firebaseId)
           credTaken == checkCredentials(users, AsCredentials(d))
       IN  /\ idTaken => last'.result = "dupid"
           /\ (~idTaken /\ credTaken) => last'.result = "dupcred"
           /\ (idTaken \/ credTaken) => users' = users]_vars

\* C5 witness: a create was rejected for its firebaseId while its phone also
\* collides with another stored User
C5_Witness ==
  /\ last.op = "create"
  /\ last.result = "dupid"
  /\ \E i \in 1..Len(users) :
       /\ users[i].firebaseId # last.data.firebaseId
       /\ Truthy(users[i].phone)
       /\ users[i].phone = last.data.phone

\* C6: a create call that passes the firebaseId and credential checks
\* persists the User and returns it, whatever getUser and setCustomUserClaims
\* do.
C6_CreateSurvivesProvider ==
  [][(/\ last'.op = "create"
      /\ ~HasFirebaseId(users, last'.data.firebaseId)
      /\ ~checkCredentials(users, AsCredentials(last'.data)))
     => /\ last'.result = "ok"
        /\ Len(users') = Len(users) + 1
        /\ last'.ret = <<users'[Len(users')]>>
        /\ users'[Len(users')].firebaseId = last'.data.firebaseId
        /\ SubSeq(users', 1, Len(users)) = users]_vars

\* C6 witness: a create succeeded although getUser threw and
\* setCustomUserClaims rejected
C6_Witness ==
  /\ last.op = "create"
  /\ last.result = "ok"
  /\ ~last.prov.ok
  /\ ~last.claimsOk
  /\ HasFirebaseId(users, last.data.firebaseId)

\* C7: after a successful create whose email equals the provider's verified
\* email the stored and returned User has emailVerified = true, and when the
\* phone equals the provider's phone number it has phoneVerified = true; when
\* the submitted value does not match, the flag is not set.
C7_CreateSetsVerifiedFlags ==
  (last.op = "create" /\ last.result = "ok" /\ last.prov.ok) =>
    LET d == last.data
        stored == users[Len(users)]
        returned == last.ret[1]
        emailMatch == /\ Truthy(d.email)
                      /\ last.prov.emailVerified
                      /\ last.prov.email = d.email
        phoneMatch == Truthy(d.phone) /\ last.prov.phoneNumber = d.phone
    IN  /\ stored.emailVerified = emailMatch
        /\ returned.emailVerified = emailMatch
        /\ stored.phoneVerified = phoneMatch
        /\ returned.phoneVerified = phoneMatch

\* C8: for an existing User (addressed by firebaseId), update with a patch
\* that changes only email sets emailVerified = true on the stored record
\* when the new email matches the provider's verified email, and leaves it
\* unset/false when the new email does not match the provider's email.
C8_UpdateSetsEmailVerified ==
  (/\ last.op = "update"
   /\ last.result = "ok"
   /\ Truthy(last.query.firebaseId)
   /\ last.prov.ok
   /\ Truthy(last.data.email)
   /\ last.data.phone = NULL
   /\ last.data.voterId = NULL) =>
    LET stored == users[FirstMatch(users, QueryFilter(last.query))]
    IN  /\ (last.prov.emailVerified /\ last.prov.email = last.data.email)
             => stored.emailVerified
        /\ last.prov.email # last.data.email => ~stored.emailVerified

(***************************************************************************)
(* Properties of concurrent create calls                                   *)
(***************************************************************************)
\* C2: two concurrent create calls with different firebaseIds and the same
\* non-empty phone: exactly one persists a User, the other fails with the
\* duplicate-credential error.
C2_ConcurrentCreateOneWins ==
  \A c1, c2 \in 1..MaxCalls :
    (/\ c1 # c2
     /\ calls[c1].pc = "done"
     /\ calls[c2].pc = "done"
     /\ calls[c1].data.firebaseId # calls[c2].data.firebaseId
     /\ Truthy(calls[c1].data.phone)
     /\ calls[c1].data.phone = calls[c2].data.phone)
    => \/ calls[c1].result = "ok" /\ calls[c2].result = "dupcred"
       \/ calls[c1].result = "dupcred" /\ calls[c2].result = "ok"

\* C3: firebaseId is globally unique: no two User records have the same
\* firebaseId, also after two concurrent create calls carrying the same one.
C3_FirebaseIdUnique ==
  \A i, j \in 1..Len(users) :
    i # j => users[i].firebaseId # users[j].firebaseId

(***************************************************************************)
(* Properties of checkCredentials                                          *)
(***************************************************************************)
\* The User the candidate itself stands for, when it names one
IsSelf(u, c) ==
  \/ Truthy(c.firebaseId) /\ u.firebaseId = c.firebaseId
  \/ c._id # NoId /\ u._id = c._id

Collides(u, c) ==
  \/ Truthy(u.phone) /\ u.phone = c.phone
  \/ Truthy(u.email) /\ u.email = c.email
  \/ Truthy(c.voterId) /\ Truthy(u.voterId) /\ u.voterId = c.voterId

\* C4: for every candidate and every store content checkCredentials returns
\* true iff some stored User, other than the one whose firebaseId or _id is
\* the candidate's, has a non-empty phone, email or (when supplied) voterId
\* equal to the candidate's; empty or absent values never match.
C4_CheckCredentialsIff ==
  /\ last = NoLast =>
       \A c \in Candidates :
         checkCredentials(users, c) <=>
           \E i \in 1..Len(users) : ~IsSelf(users[i], c) /\ Collides(users[i], c)
  /\ last.op = "checkCredentials" =>
       (last.result <=>
          \E i \in 1..Len(users) :
            ~IsSelf(users[i], last.data) /\ Collides(users[i], last.data))

\* C4 witness: checkCredentials answered true for a candidate whose own
\* record (excluded by firebaseId) holds the same phone as another User
C4_Witness ==
  /\ last.op = "checkCredentials"
  /\ last.result
  /\ \E i, j \in 1..Len(users) :
       /\ IsSelf(users[i], last.data) /\ Collides(users[i], last.data)
       /\ ~IsSelf(users[j], last.data) /\ Collides(users[j], last.data)

(***************************************************************************)
(* Properties of the presence tracker                                      *)
(***************************************************************************)
\* The connected calls whose store update was applied to the user
AppliedConnects(fid) ==
  {k \in 1..MaxConns : conns[k].matched /\ conns[k].data.user = fid}

\* C9: connect appends the socket entry and increments the platform counter
\* in one store update, so no update is lost: after N connected calls for
\* one existing user, in any interleaving, activeSockets has N more entries,
\* one per call, and the user's platform counters add up to N more.
C9_ConnectLosesNoUpdate ==
  \A i \in 1..Len(users) :
    LET u == users[i]
        applied == AppliedConnects(u.firebaseId)
    IN  /\ Len(u.activeSockets) = Cardinality(applied)
        /\ u.platformOnline["app"] + u.platformOnline["web"]
             + u.platformOnline["webmobile"] = Cardinality(applied)
        /\ \A p \in Platforms :
             u.platformOnline[p] =
               Cardinality({k \in applied : conns[k].data.platform = p})
        /\ \A k \in applied :
             \E n \in 1..Len(u.activeSockets) :
               u.activeSockets[n] = [socketid |-> conns[k].data.socketid,
                                     platform |-> conns[k].data.platform]

\* C9 witness: two connected calls for the same user are in flight together
\* and both store updates have been applied
C9_Witness ==
  \E k1, k2 \in 1..MaxConns :
    /\ k1 # k2
    /\ conns[k1].pc = "findOne" /\ conns[k2].pc = "findOne"
    /\ conns[k1].matched /\ conns[k2].matched
    /\ conns[k1].data.user = conns[k2].data.user
    /\ conns[k1].data.platform # conns[k2].data.platform

\* C10: after disconnect(s) completes no User record has an activeSockets
\* entry with socket id s, whichever users held it.
C10_DisconnectRemovesSocket ==
  last.op = "disconnected" =>
    \A i \in 1..Len(users) : ~HoldsSocket(users[i], last.socketid)

(***************************************************************************)
(* Properties of the session log                                           *)
(***************************************************************************)
\* The connected calls that passed the guard on the ids
AcceptedConnects == {k \in 1..MaxConns : conns[k].pc # "idle"}

\* The connected calls that fired their UserSession insert
FiredConnects == {k \in 1..MaxConns : conns[k].pc = "done"}

IsSessionOf(r, k) ==
  /\ r.user = conns[k].data.user
  /\ r.socketid = conns[k].data.socketid
  /\ r.platform = conns[k].data.platform

\* C11: the UserSession store is an append-only log with one record per
\* connection event: no step (connect, disconnect, update or delete of the
\* user) changes or removes a stored record, every record belongs to a
\* connected call with non-empty ids and there is at most one per call, and
\* every such call eventually has its record in the store.
C11_SessionLogAppendOnly ==
  /\ [][/\ Len(sessions') >= Len(sessions)
        /\ SubSeq(sessions', 1, Len(sessions)) = sessions]_vars
  /\ [](/\ Len(sessions) + Len(pending) = Cardinality(FiredConnects)
        /\ \A n \in 1..Len(sessions) :
             \E k \in FiredConnects : IsSessionOf(sessions[n], k))
  /\ \A n \in 1..MaxConns :
       (Cardinality(AcceptedConnects) >= n) ~> (Len(sessions) >= n)

\* C11 witness: the session record of a connected call is in the log after
\* the user was updated, the socket disconnected and the user deleted
C11_Witness ==
  /\ Len(sessions) >= 1
  /\ sessions[1].user = "f1"
  /\ last.op = "delete"
  /\ ~HasFirebaseId(users, "f1")
  /\ nextId > 1

(***************************************************************************)
(* Properties of getGeoByIp                                                *)
(***************************************************************************)
\* The record of the call's userId carries the geo string and the IP
GeoWritten ==
  LET i == FirstMatch(users, Eq("firebaseId", geo.userId))
  IN  /\ i # 0
      /\ users[i].ipGeo = IpGeoString(geo.resp)
      /\ users[i].lastIp = geo.ip

\* C12: when the geo-IP lookup returned a response and a userId was given,
\* the geo string and the IP are written onto that user's record before any
\* civic-hierarchy query is issued, and the write is in place whatever the
\* call's outcome (non-serviced country, no constituency match, a failure
\* later in the resolution).
C12_GeoWriteBeforeResolution ==
  /\ []((geo.resp.ok /\ Truthy(geo.userId)
           /\ geo.pc \notin {"idle", "get", "update"})
         => (geo.updated /\ (geo.matched => GeoWritten)))
  /\ []((geo.queries # <<>> /\ Truthy(geo.userId)) => geo.updated)
  /\ [][(/\ geo.pc = "update"
         /\ geo'.pc # "update"
         /\ Truthy(geo.userId)
         /\ HasFirebaseId(users, geo.userId))
        => geo'.matched]_vars

\* C12 witness: the resolution failed after the lookup answered, and the
\* user's record carries the write
C12_Witness ==
  /\ geo.pc = "failed"
  /\ geo.resp.ok
  /\ geo.matched
  /\ GeoWritten

\* C13: when the geo-IP response names a country other than 'IN' the call
\* returns an empty location without error and issues no query to the
\* AssemblyConstituency, ParliamentaryConstituency, District or State store.
C13_NonServicedCountryEmpty ==
  (geo.resp.ok /\ geo.resp.country # "IN"
     /\ geo.pc \notin {"idle", "get", "update"})
  => /\ geo.pc = "done"
     /\ geo.result = "ok"
     /\ geo.ret = EmptyLocation
     /\ geo.queries = <<>>

\* C13 witness: a call for a non-serviced country returned although an
\* assembly constituency with the city's name is in the store
C13_Witness ==
  /\ geo.pc = "done"
  /\ geo.resp.ok
  /\ geo.resp.country = "US"
  /\ FindOneByName(civic.assemblyConstituency, geo.resp.city) # <<>>
  /\ geo.matched

\* C14: a failure of the geo-IP lookup is absorbed inside the call: the
\* call does not fail towards its caller but returns an empty location.
C14_GeoLookupFailureAbsorbed ==
  (geo.pc \in {"done", "failed"} /\ ~geo.resp.ok)
  => (geo.result = "ok" /\ geo.ret = EmptyLocation)

\* All four levels, each the document the level above refers to
FullChain(loc) ==
  /\ loc.assemblyConstituency # <<>>
  /\ loc.parliamentaryConstituency # <<>>
  /\ loc.district # <<>>
  /\ loc.state # <<>>
  /\ loc.parliamentaryConstituency[1]._id =
       loc.assemblyConstituency[1].parliamentaryConstituency
  /\ loc.district[1]._id = loc.assemblyConstituency[1].district
  /\ loc.state[1]._id = loc.district[1].state

\* C15: when the city of a serviced-country response matches an assembly
\* constituency, the call completes and returns all four levels (the matched
\* constituency, the parliamentary constituency and district it refers to,
\* the state the district refers to), whatever the reference stores hold;
\* a call whose lookup answered returns the empty location or the full
\* chain, never a failure.
C15_FullChainOrEmpty ==
  (geo.pc \in {"done", "failed"} /\ geo.resp.ok)
  => /\ geo.result = "ok"
     /\ geo.ret = EmptyLocation \/ FullChain(geo.ret)
     /\ (/\ geo.resp.country = "IN"
         /\ FindOneByName(civic.assemblyConstituency, geo.resp.city) # <<>>)
        => /\ FullChain(geo.ret)
           /\ geo.ret.assemblyConstituency =
                FindOneByName(civic.assemblyConstituency, geo.resp.city)

(***************************************************************************)
(* Properties of the online counts and the platform counters               *)
(***************************************************************************)
\* The activeSockets entries with platform p held across all users
SocketsOn(p) ==
  UNION {{<<i, n>> : n \in {m \in 1..Len(users[i].activeSockets) :
                              users[i].activeSockets[m].platform = p}} :
           i \in 1..Len(users)}

\* C16: after any sequence of connect and disconnect calls the platform
\* breakdown of getOnlineCounts without state filter reports for each
\* platform p exactly the number of activeSockets entries with platform p
\* held across all users, and omits the platforms with none.
C16_OnlineCountsByPlatform ==
  (last.op = "getOnlineCounts" /\ ~Truthy(last.filter.state))
  => last.byPlatform =
       {[_id |-> p, online |-> Cardinality(SocketsOn(p))] :
          p \in {q \in Platforms : SocketsOn(q) # {}}}

\* C16 witness: after a single connect (f1, s1, 'app') on an idle store the
\* breakdown is 'app' with count 1
C16_Witness ==
  /\ last.op = "getOnlineCounts"
  /\ ~Truthy(last.filter.state)
  /\ last.byPlatform = {[_id |-> "app", online |-> 1]}
  /\ Len(users) = 1
  /\ users[1].firebaseId = "f1"
  /\ users[1].activeSockets = <<[socketid |-> "s1", platform |-> "app"]>>

\* C17: disconnect leaves every platformOnline counter unchanged, and along
\* any sequence of connect and disconnect calls no user's platformOnline[p]
\* ever decreases.
C17_CountersNeverDecrease ==
  [][/\ \A i \in 1..Len(users) : \A p \in Platforms :
          /\ i <= Len(users')
          /\ users'[i].platformOnline[p] >= users[i].platformOnline[p]
     /\ last'.op = "disconnected" =>
          \A i \in 1..Len(users) :
            users'[i].platformOnline = users[i].platformOnline]_vars

\* C17 witness: a socket was connected and disconnected again, and the
\* counter of its platform still stands at one
C17_Witness ==
  /\ last.op = "disconnected"
  /\ \E i \in 1..Len(users) :
       /\ users[i].activeSockets = <<>>
       /\ users[i].platformOnline[PlatformOf(last.socketid)] = 1

\* C18: for a User created through create and then touched only by
\* connected and disconnected calls, in every reachable state and for every
\* platform p, platformOnline[p] is at least the number of the user's
\* activeSockets entries with platform p.
C18_CounterCoversSockets ==
  \A i \in 1..Len(users) : \A p \in Platforms :
    users[i].platformOnline[p] >=
      Cardinality({n \in 1..Len(users[i].activeSockets) :
                     users[i].activeSockets[n].platform = p})

\* C18 witness: a user holds one 'app' socket while its 'app' counter stands
\* at two (connected, disconnected, connected again)
C18_Witness ==
  \E i \in 1..Len(users) :
    /\ Len(users[i].activeSockets) = 1
    /\ users[i].activeSockets[1].platform = "app"
    /\ users[i].platformOnline["app"] = 2

====
